---- MODULE Spec2Model ----
(***************************************************************************)
(* State-machine model of MacOSPerformanceMonitor                          *)
(* (src/macos_performance_monitor.py): the rate snapshots kept for the     *)
(* network and disk counters, the temperature cache, and the per-process   *)
(* CPU priming and ranking of get_top_processes, the report assembled by   *)
(* get_json_report, the continuous loop of main, and the network widget of *)
(* the terminal interface (src/macos_tui_advanced.py) that shares the      *)
(* monitor.                                                                *)
(*                                                                         *)
(* Time is counted in whole seconds.  Optional values (Python None) are    *)
(* sequences of length 0 or 1.  Rates are kept in hundredths of MiB/s,     *)
(* which is what round(x, 2) returns.                                      *)
(***************************************************************************)
EXTENDS Integers, Sequences, FiniteSets, TLC

VARIABLES
    now,               \* the value time.time() returns
    start_time,        \* self.start_time
    network_io_start,  \* self.network_io_start
    prev_net_io,       \* self._prev_net_io
    prev_disk_io,      \* self._prev_disk_io (<<>> is None)
    prev_sample_ts,    \* self._prev_sample_ts
    last_temp,         \* self._last_temp (<<>> is None)
    last_temp_ts,      \* self._last_temp_ts
    enable_temps,      \* self.enable_temps
    proc_prime_ts,     \* self._proc_prime_ts
    call,              \* the last call made on the monitor: arguments, readings, result
    disk_snap_ts,      \* history: the time at which _prev_disk_io was stored
    net_called,        \* history: get_network_info has been called
    disk_called,       \* history: get_disk_info has been called
    fetched,           \* history: the last run of powermetrics that gave a
                       \* temperature, <<>> or <<[at, value]>>
    attempt,           \* history: the last run of powermetrics, <<>> or <<[at, got]>>
    ptable,            \* what psutil.process_iter enumerates
    primed,            \* history: a priming pass has completed
    counted,           \* history: the byte deltas get_network_info has computed,
                       \* summed over all its calls
    prime_log,         \* history: the times at which a priming pass ran
    history_up,        \* NetworkDetailWidget.history_up
    history_down,      \* NetworkDetailWidget.history_down
    panel,             \* what NetworkDetailWidget.render last did
    dirty,             \* the widget has asked for a repaint (self.refresh())
    timer,             \* the time at which the widget's interval timer next fires
    pc,                \* main: where the continuous loop stands
    end_time,          \* main: end_time (<<>> is None)
    args               \* main: the parsed command line

vars == <<now, start_time, network_io_start, prev_net_io, prev_disk_io,
          prev_sample_ts, last_temp, last_temp_ts, enable_temps, proc_prime_ts,
          call, disk_snap_ts, net_called, disk_called, fetched, attempt,
          ptable, primed, counted, prime_log, history_up, history_down,
          panel, dirty, timer, pc, end_time, args>>

rateVars == <<network_io_start, prev_net_io, prev_disk_io, prev_sample_ts,
              disk_snap_ts, net_called, disk_called, start_time, counted>>
tempVars == <<last_temp, last_temp_ts, enable_temps, fetched, attempt>>
procVars == <<proc_prime_ts, ptable, primed, prime_log>>
uiVars == <<history_up, history_down, panel, dirty, timer>>
mainVars == <<pc, end_time, args>>
hostVars == <<uiVars, mainVars>>

(***************************************************************************)
(* Bounds and program constants                                            *)
(***************************************************************************)
\* time.time() at construction: seconds since the epoch, far beyond any of the
\* program's intervals
StartClock == 6
\* seconds of session the rate model follows
RateMaxElapsed == 3
\* seconds of session the temperature model follows
TempMaxElapsed == 7
\* self.temp_refresh_seconds
temp_refresh_seconds == 5

\* 1024**2
MiB == 1048576
\* the 1e-6 s floor of dt, as a fraction of a second: 1 / EpsilonInv
EpsilonInv == 1000000

\* psutil.net_io_counters(): bytes_sent, bytes_recv.  5243 is the least byte
\* count that round(x / 1024**2, 2) does not round to 0.0
SentVals == {0, 5243, MiB, 2 * MiB}
RecvVals == {0, MiB}
NetReadings == [bytes_sent : SentVals, bytes_recv : RecvVals]
\* psutil.disk_io_counters(): read_bytes, write_bytes, or None
ReadVals == {0, 2 * MiB}
WriteVals == {0, MiB}
DiskCounters == [read_bytes : ReadVals, write_bytes : WriteVals]
DiskReadings == {<<>>} \cup {<<c>> : c \in DiskCounters}

NoCall == [op |-> "none"]

(***************************************************************************)
(* round(n / d, 0) for d > 0 as Python rounds: to the nearest integer, a   *)
(* tie to the even one.  off is a whole number added to the quotient, so   *)
(* the result is round(off + n / d).                                       *)
(***************************************************************************)
RoundHalfEven(off, n, d) ==
    LET q == off + (n \div d)
        r == n % d
    IN  IF 2 * r < d THEN q
        ELSE IF 2 * r > d THEN q + 1
        ELSE IF q % 2 = 0 THEN q ELSE q + 1

(***************************************************************************)
(* round(delta / (1024**2) / dt, 2) in hundredths, dt = max(elapsed, 1e-6) *)
(* with elapsed a whole number of seconds.  With dt = 1e-6 the value is    *)
(* delta * 10^8 / 2^20 = delta * 390625 / 4096, computed in two parts.     *)
(***************************************************************************)
RateMiBs(delta, elapsed) ==
    IF elapsed >= 1
    THEN RoundHalfEven(0, 100 * delta, elapsed * MiB)
    ELSE LET n == (100 * EpsilonInv) \div 256
             d == MiB \div 256
         IN  RoundHalfEven((delta \div d) * n, (delta % d) * n, d)

(***************************************************************************)
(* MacOSPerformanceMonitor.get_network_info                                *)
(***************************************************************************)
\* lines 109-126 with the rates of the first call forced to 0
NetResultZeroFirst(net_io, prev, elapsed) ==
    [op |-> "net", at |-> now, first |-> ~net_called, io |-> net_io,
     send_rate_mib_s |->
         IF net_called
         THEN RateMiBs(net_io.bytes_sent - prev.bytes_sent, elapsed) ELSE 0,
     recv_rate_mib_s |->
         IF net_called
         THEN RateMiBs(net_io.bytes_recv - prev.bytes_recv, elapsed) ELSE 0]

\* lines 109-126 with the deltas taken from the snapshot of construction
NetResultFromStart(net_io, prev, elapsed) ==
    [op |-> "net", at |-> now, first |-> ~net_called, io |-> net_io,
     send_rate_mib_s |->
         RateMiBs(net_io.bytes_sent - network_io_start.bytes_sent, elapsed),
     recv_rate_mib_s |->
         RateMiBs(net_io.bytes_recv - network_io_start.bytes_recv, elapsed)]

\* lines 109-126: what the call returns (the rates; the totals are left out)
NetResult(net_io, prev, elapsed) ==
    [op |-> "net", at |-> now, first |-> ~net_called, io |-> net_io,
     send_rate_mib_s |-> RateMiBs(net_io.bytes_sent - prev.bytes_sent, elapsed),
     recv_rate_mib_s |-> RateMiBs(net_io.bytes_recv - prev.bytes_recv, elapsed)]

\* lines 114-115: the byte deltas of one call
NetDeltaFromStart(net_io) ==
    [sent |-> net_io.bytes_sent - network_io_start.bytes_sent,
     recv |-> net_io.bytes_recv - network_io_start.bytes_recv]

NetDelta(net_io) ==
    [sent |-> net_io.bytes_sent - prev_net_io.bytes_sent,
     recv |-> net_io.bytes_recv - prev_net_io.bytes_recv]

Counted(net_io) ==
    [sent |-> counted.sent + NetDelta(net_io).sent,
     recv |-> counted.recv + NetDelta(net_io).recv]

\* lines 109-126 with the snapshot kept when a counter has gone down
NetCallKeepsOnRegression(net_io) ==
    /\ call' = NetResult(net_io, prev_net_io, now - prev_sample_ts)
    /\ prev_net_io' = IF \/ net_io.bytes_sent < prev_net_io.bytes_sent
                         \/ net_io.bytes_recv < prev_net_io.bytes_recv
                      THEN prev_net_io ELSE net_io
    /\ prev_sample_ts' = now
    /\ net_called' = TRUE
    /\ counted' = Counted(net_io)
    /\ UNCHANGED <<now, start_time, network_io_start, prev_disk_io,
                   disk_snap_ts, disk_called, tempVars, procVars, mainVars>>

\* the call as every caller of the monitor makes it
NetCall(net_io) ==
    /\ call' = NetResult(net_io, prev_net_io, now - prev_sample_ts)
    /\ prev_net_io' = net_io
    /\ prev_sample_ts' = now
    /\ net_called' = TRUE
    /\ counted' = Counted(net_io)
    /\ UNCHANGED <<now, start_time, network_io_start, prev_disk_io,
                   disk_snap_ts, disk_called, tempVars, procVars, mainVars>>

GetNetworkInfo ==
    \E net_io \in NetReadings : NetCall(net_io) /\ UNCHANGED uiVars

(***************************************************************************)
(* MacOSPerformanceMonitor.get_disk_info (the io_stats part)               *)
(***************************************************************************)
DiskStats(io, prev, elapsed) ==
    [read_rate_mib_s |-> RateMiBs(io.read_bytes - prev.read_bytes, elapsed),
     write_rate_mib_s |-> RateMiBs(io.write_bytes - prev.write_bytes, elapsed)]

DiskCall(io) ==
    /\ disk_called' = TRUE
    /\ \/ /\ io = <<>>
          /\ call' = [op |-> "disk", at |-> now, first |-> ~disk_called,
                      io |-> io, raised |-> FALSE, io_stats |-> <<>>]
          /\ UNCHANGED <<prev_disk_io, disk_snap_ts>>
       \/ /\ io # <<>>
          /\ prev_disk_io = <<>>
          \* prev.read_bytes on None: AttributeError leaves get_disk_info
          /\ call' = [op |-> "disk", at |-> now, first |-> ~disk_called,
                      io |-> io, raised |-> TRUE, io_stats |-> <<>>]
          /\ UNCHANGED <<prev_disk_io, disk_snap_ts>>
       \/ /\ io # <<>>
          /\ prev_disk_io # <<>>
          /\ call' = [op |-> "disk", at |-> now, first |-> ~disk_called,
                      io |-> io, raised |-> FALSE,
                      io_stats |-> <<DiskStats(io[1], prev_disk_io[1],
                                               now - prev_sample_ts)>>]
          /\ prev_disk_io' = io
          /\ disk_snap_ts' = now
    /\ UNCHANGED <<now, start_time, network_io_start, prev_net_io,
                   prev_sample_ts, net_called, counted, tempVars, procVars,
                   hostVars>>

GetDiskInfo ==
    \E io \in DiskReadings : DiskCall(io)

(***************************************************************************)
(* The clock                                                               *)
(***************************************************************************)
RateTick ==
    /\ now < StartClock + RateMaxElapsed
    /\ now' = now + 1
    /\ UNCHANGED <<rateVars, tempVars, procVars, call, hostVars>>

(***************************************************************************)
(* MacOSPerformanceMonitor.__init__                                        *)
(***************************************************************************)
InitMonitor ==
    /\ now = StartClock
    /\ start_time = now
    /\ network_io_start \in NetReadings
    /\ prev_net_io = network_io_start
    /\ prev_disk_io \in DiskReadings
    /\ prev_sample_ts = start_time
    /\ last_temp = <<>>
    /\ last_temp_ts = 0
    /\ proc_prime_ts = 0
    /\ call = NoCall
    /\ disk_snap_ts = start_time
    /\ net_called = FALSE
    /\ disk_called = FALSE
    /\ fetched = <<>>
    /\ attempt = <<>>
    /\ primed = FALSE
    /\ counted = [sent |-> 0, recv |-> 0]
    /\ prime_log = <<>>

\* no widget is mounted and main runs no loop
NoHost ==
    /\ history_up = <<>>
    /\ history_down = <<>>
    /\ panel = [op |-> "none"]
    /\ dirty = FALSE
    /\ timer = 0
    /\ pc = "none"
    /\ end_time = <<>>
    /\ args = [duration |-> <<>>, interval |-> 5]

RateInit ==
    /\ InitMonitor
    /\ NoHost
    /\ enable_temps = FALSE
    /\ ptable = <<>>

RateNext ==
    \/ GetNetworkInfo
    \/ GetDiskInfo
    \/ RateTick

RateSpec == RateInit /\ [][RateNext]_vars

(***************************************************************************)
(* MacOSPerformanceMonitor.get_temperature_info                            *)
(***************************************************************************)
\* what one run of sudo -n powermetrics gives: exit 0 with a parsable
\* "CPU die temperature" line, exit 0 without one, a non-zero exit,
\* subprocess.TimeoutExpired, FileNotFoundError
TempVals == {45, 50}
ProbeOutcomes ==
    {[kind |-> "ok", temps |-> <<v>>] : v \in TempVals}
        \cup {[kind |-> k, temps |-> <<>>] :
                  k \in {"empty", "nonzero", "timeout", "missing"}}

CacheHitAtTtl ==
    now - last_temp_ts <= temp_refresh_seconds /\ last_temp # <<>>

\* line 144: the cached value is served
CacheHit ==
    now - last_temp_ts < temp_refresh_seconds /\ last_temp # <<>>

TempResult(probes, got, value) ==
    [op |-> "temp", at |-> now, probes |-> probes, got |-> got, value |-> value]

\* lines 139-167 without the test of enable_temps
GetTemperatureInfoWhateverSwitch ==
    \/ /\ CacheHit
       /\ call' = TempResult(0, <<>>, last_temp)
       /\ UNCHANGED <<now, rateVars, tempVars, procVars, hostVars>>
    \/ /\ ~CacheHit
       /\ \E out \in ProbeOutcomes :
            /\ attempt' = <<[at |-> now, got |-> out.temps]>>
            /\ fetched' = IF out.temps # <<>>
                          THEN <<[at |-> now, value |-> out.temps[1]]>>
                          ELSE fetched
            /\ IF out.kind \in {"ok", "empty"}
               THEN /\ last_temp' = out.temps
                    /\ last_temp_ts' = now
                    /\ call' = TempResult(1, <<out>>, out.temps)
               ELSE /\ UNCHANGED <<last_temp, last_temp_ts>>
                    /\ call' = TempResult(1, <<out>>, <<>>)
       /\ UNCHANGED <<now, rateVars, enable_temps, procVars, hostVars>>

GetTemperatureInfo ==
    \/ /\ ~enable_temps
       /\ call' = TempResult(0, <<>>, <<>>)
       /\ UNCHANGED <<now, rateVars, tempVars, procVars, hostVars>>
    \/ /\ enable_temps
       /\ CacheHit
       /\ call' = TempResult(0, <<>>, last_temp)
       /\ UNCHANGED <<now, rateVars, tempVars, procVars, hostVars>>
    \/ /\ enable_temps
       /\ ~CacheHit
       /\ \E out \in ProbeOutcomes :
            /\ attempt' = <<[at |-> now, got |-> out.temps]>>
            /\ fetched' = IF out.temps # <<>>
                          THEN <<[at |-> now, value |-> out.temps[1]]>>
                          ELSE fetched
            /\ IF out.kind \in {"ok", "empty"}
               THEN /\ last_temp' = out.temps
                    /\ last_temp_ts' = now
                    /\ call' = TempResult(1, <<out>>, out.temps)
               ELSE /\ UNCHANGED <<last_temp, last_temp_ts>>
                    /\ call' = TempResult(1, <<out>>, <<>>)
       /\ UNCHANGED <<now, rateVars, enable_temps, procVars, hostVars>>

TempTick ==
    /\ now < StartClock + TempMaxElapsed
    /\ now' = now + 1
    /\ UNCHANGED <<rateVars, tempVars, procVars, call, hostVars>>

\* __init__ and the assignment of enable_temps that follows it in main
TempInit ==
    /\ InitMonitor
    /\ NoHost
    /\ network_io_start = [bytes_sent |-> 0, bytes_recv |-> 0]
    /\ prev_disk_io = <<>>
    /\ enable_temps \in BOOLEAN
    /\ ptable = <<>>

TempNext ==
    \/ GetTemperatureInfo
    \/ TempTick

TempSpec == TempInit /\ [][TempNext]_vars

(***************************************************************************)
(* get_temperature_info on a monitor whose enable_temps the host assigns:  *)
(* main assigns the attribute once, after construction (line 340); here it *)
(* is assigned at any time, so that the switch can be off over a cache     *)
(* that holds a reading                                                    *)
(***************************************************************************)
SetEnableTemps ==
    /\ enable_temps' = ~enable_temps
    /\ UNCHANGED <<now, rateVars, last_temp, last_temp_ts, fetched, attempt,
                   procVars, call, hostVars>>

SwitchNext ==
    \/ GetTemperatureInfo
    \/ SetEnableTemps
    \/ TempTick

SwitchSpec == TempInit /\ [][SwitchNext]_vars

(***************************************************************************)
(* MacOSPerformanceMonitor.get_top_processes                               *)
(***************************************************************************)
\* the most processes psutil.process_iter enumerates
MaxProcs == 3
\* the largest num asked for
MaxNum == 4
\* seconds that must have passed since the last priming pass for the next
PrimeCooldown == 5

Pids == 1 .. MaxProcs
\* sort_by: the two selectors the code knows and one it does not
SortBys == {"cpu", "memory", "disk"}

\* One enumerated process: the read of its info fails (NoSuchProcess,
\* AccessDenied, ZombieProcess), or gives cpu_percent (None or a percentage)
\* and memory_percent (in thousandths of a percent): an idle process that
\* holds more memory, or a busy one that holds less
ProcReadings ==
    {[pid |-> p, ok |-> FALSE, cpu |-> <<>>, mem |-> 0] : p \in Pids}
        \cup {[pid |-> p, ok |-> TRUE, cpu |-> <<>>, mem |-> 1236] : p \in Pids}
        \cup {[pid |-> p, ok |-> TRUE, cpu |-> <<30>>, mem |-> 1234] : p \in Pids}

\* process_iter yields each pid once, in any order
Enumerations ==
    {t \in UNION {[1 .. n -> ProcReadings] : n \in 0 .. MaxProcs} :
        \A i, j \in DOMAIN t : i # j => t[i].pid # t[j].pid}

\* lines 185-194: cpu_percent or 0.0, round(memory_percent, 2) in hundredths
Entry(r) ==
    [pid |-> r.pid,
     cpu_percent |-> IF r.cpu = <<>> THEN 0 ELSE r.cpu[1],
     memory_percent |-> RoundHalfEven(0, r.mem, 10)]

\* lines 182-196: one entry per process whose read succeeds, as enumerated
ReadProcesses(table) ==
    LET read == SelectSeq(table, LAMBDA r : r.ok)
    IN  [i \in DOMAIN read |-> Entry(read[i])]

\* lines 198-199
Normalize(sort_by) ==
    IF sort_by \notin {"cpu", "memory"} THEN "cpu" ELSE sort_by

\* the sort key of lines 201 and 203
Metric(e, sort_by) ==
    IF sort_by = "cpu" THEN e.cpu_percent ELSE e.memory_percent

InsertDescBeforeEqual(sorted, e, sort_by) ==
    LET k == Cardinality({i \in DOMAIN sorted :
                             Metric(sorted[i], sort_by) > Metric(e, sort_by)})
    IN  SubSeq(sorted, 1, k) \o <<e>> \o SubSeq(sorted, k + 1, Len(sorted))

\* list.sort(key, reverse=True): descending and stable, so entries of equal
\* key keep the order they were appended in
InsertDesc(sorted, e, sort_by) ==
    LET k == Cardinality({i \in DOMAIN sorted :
                             Metric(sorted[i], sort_by) >= Metric(e, sort_by)})
    IN  SubSeq(sorted, 1, k) \o <<e>> \o SubSeq(sorted, k + 1, Len(sorted))

RECURSIVE SortDesc(_, _)
SortDesc(processes, sort_by) ==
    IF processes = <<>>
    THEN <<>>
    ELSE InsertDesc(SortDesc(SubSeq(processes, 1, Len(processes) - 1), sort_by),
                    processes[Len(processes)], sort_by)

TakeOneMore(processes, num) ==
    SubSeq(processes, 1,
           IF num + 1 < Len(processes) THEN num + 1 ELSE Len(processes))

\* processes[:num] for num >= 0
Take(processes, num) ==
    SubSeq(processes, 1, IF num < Len(processes) THEN num ELSE Len(processes))

\* lines 182-205
RankedView(table, num, sort_by) ==
    Take(SortDesc(ReadProcesses(table), Normalize(sort_by)), num)

NeedsPrimingAtCooldown(sort_by) ==
    sort_by = "cpu" /\ now - proc_prime_ts >= PrimeCooldown

\* line 173
NeedsPriming(sort_by) ==
    sort_by = "cpu" /\ now - proc_prime_ts > PrimeCooldown

TopCall(num, sort_by) ==
    /\ IF NeedsPriming(sort_by)
       THEN /\ proc_prime_ts' = now
            /\ primed' = TRUE
            /\ prime_log' = Append(prime_log, now)
       ELSE UNCHANGED <<proc_prime_ts, primed, prime_log>>
    /\ call' = [op |-> "top", at |-> now, num |-> num, sort_by |-> sort_by,
                result |-> RankedView(ptable, num, sort_by)]
    /\ UNCHANGED <<now, rateVars, tempVars, ptable, hostVars>>

GetTopProcesses ==
    \E num \in 0 .. MaxNum, sort_by \in SortBys : TopCall(num, sort_by)

\* a process ends between two calls
ProcessExit ==
    \E i \in DOMAIN ptable :
        /\ ptable' = SubSeq(ptable, 1, i - 1) \o SubSeq(ptable, i + 1, Len(ptable))
        /\ UNCHANGED <<now, rateVars, tempVars, proc_prime_ts, primed,
                       prime_log, call, hostVars>>

TopInit ==
    /\ InitMonitor
    /\ NoHost
    /\ network_io_start = [bytes_sent |-> 0, bytes_recv |-> 0]
    /\ prev_disk_io = <<>>
    /\ enable_temps = FALSE
    /\ ptable \in Enumerations

TopNext ==
    \/ GetTopProcesses
    \/ ProcessExit

TopSpec == TopInit /\ [][TopNext]_vars

(***************************************************************************)
(* get_top_processes called as time passes                                 *)
(***************************************************************************)
\* seconds of session the priming model follows: enough for three passes
PrimeMaxElapsed == 12

\* process tables of at most two processes, enumerated by ascending pid
PrimeTables ==
    {t \in Enumerations :
        /\ Len(t) <= 2
        /\ \A i \in DOMAIN t : t[i].pid = i}

TimedGetTopProcesses ==
    \E sort_by \in SortBys : TopCall(2, sort_by)

PrimeTick ==
    /\ now < StartClock + PrimeMaxElapsed
    /\ now' = now + 1
    /\ UNCHANGED <<rateVars, tempVars, procVars, call, hostVars>>

PrimeInit ==
    /\ InitMonitor
    /\ NoHost
    /\ network_io_start = [bytes_sent |-> 0, bytes_recv |-> 0]
    /\ prev_disk_io = <<>>
    /\ enable_temps = FALSE
    /\ ptable \in PrimeTables

PrimeNext ==
    \/ TimedGetTopProcesses
    \/ ProcessExit
    \/ PrimeTick

PrimeSpec == PrimeInit /\ [][PrimeNext]_vars

(***************************************************************************)
(* MacOSPerformanceMonitor.get_json_report                                 *)
(***************************************************************************)
\* seconds of session the report model follows
ReportMaxElapsed == 1

\* the readings one report is assembled from
ReportNetReadings ==
    {r \in NetReadings : r.bytes_sent \in {0, MiB} /\ r.bytes_recv = 0}
ReportDiskReadings ==
    {io \in DiskReadings : io = <<>> \/ io[1].write_bytes = 0}
ReportProbeOutcomes ==
    {out \in ProbeOutcomes : out.kind = "timeout" \/ out.temps = <<45>>}
\* psutil.sensors_battery(): None on a machine without a battery
Batteries == {<<>>, <<[percent |-> 80, power_plugged |-> TRUE]>>}
\* a process table whose first process has gone by the time it is read
ReportTables ==
    {t \in Enumerations :
        /\ Len(t) = 2
        /\ t[1].pid = 1 /\ ~t[1].ok
        /\ t[2].pid = 2 /\ t[2].cpu # <<>>}
\* the keyword arguments of get_json_report
ReportArgs ==
    [include_processes : BOOLEAN, top_n : {2}, sort_by : {"cpu"},
     include_battery : BOOLEAN]

\* line 141 and line 144: the call runs powermetrics
TempProbes == enable_temps /\ ~CacheHit

\* lines 141-167: what get_temperature_info returns when a run of powermetrics,
\* if one is made, gives out
TempValue(out) ==
    IF ~enable_temps THEN <<>>
    ELSE IF CacheHit THEN last_temp
    ELSE IF out.kind \in {"ok", "empty"} THEN out.temps
    ELSE <<>>

\* lines 128-137
BatteryInfo(battery) ==
    IF battery # <<>>
    THEN <<[percent |-> battery[1].percent,
            plugged_in |-> battery[1].power_plugged]>>
    ELSE <<>>

\* line 89 with _prev_disk_io None: prev.read_bytes raises AttributeError
DiskRaises(io) == io # <<>> /\ prev_disk_io = <<>>

\* lines 302-314: the dictionary returned.  A section that may be None is a
\* sequence of length 0 or 1, a key that may be missing carries present
ReportData(a, io, net_io, out, battery) ==
    [disk_io_stats |->
         IF io = <<>> THEN <<>>
         ELSE <<DiskStats(io[1], prev_disk_io[1], now - prev_sample_ts)>>,
     network |-> NetResult(net_io, prev_net_io, now - prev_sample_ts),
     temperature |-> TempValue(out),
     battery |-> [present |-> a.include_battery,
                  value |-> IF a.include_battery
                            THEN BatteryInfo(battery) ELSE <<>>],
     top_processes |-> [present |-> a.include_processes,
                        value |-> IF a.include_processes
                                  THEN RankedView(ptable, a.top_n, a.sort_by)
                                  ELSE <<>>]]

\* lines 300-315, the calls in the order the dictionary is built in: disk,
\* network, temperature, battery, top processes
ReportCall(a, io, net_io, out, battery) ==
    /\ disk_called' = TRUE
    /\ IF DiskRaises(io)
       THEN /\ call' = [op |-> "report", at |-> now, a |-> a, io |-> io,
                        net_io |-> net_io, raised |-> TRUE, data |-> <<>>]
            /\ UNCHANGED <<prev_disk_io, disk_snap_ts, prev_net_io,
                           prev_sample_ts, net_called, counted, last_temp,
                           last_temp_ts, fetched, attempt, proc_prime_ts,
                           primed, prime_log>>
       ELSE /\ call' = [op |-> "report", at |-> now, a |-> a, io |-> io,
                        net_io |-> net_io, raised |-> FALSE,
                        data |-> <<ReportData(a, io, net_io, out, battery)>>]
            \* get_disk_info
            /\ IF io # <<>>
               THEN /\ prev_disk_io' = io
                    /\ disk_snap_ts' = now
               ELSE UNCHANGED <<prev_disk_io, disk_snap_ts>>
            \* get_network_info
            /\ prev_net_io' = net_io
            /\ prev_sample_ts' = now
            /\ net_called' = TRUE
            /\ counted' = Counted(net_io)
            \* get_temperature_info
            /\ IF TempProbes
               THEN /\ attempt' = <<[at |-> now, got |-> out.temps]>>
                    /\ fetched' = IF out.temps # <<>>
                                  THEN <<[at |-> now, value |-> out.temps[1]]>>
                                  ELSE fetched
                    /\ IF out.kind \in {"ok", "empty"}
                       THEN /\ last_temp' = out.temps
                            /\ last_temp_ts' = now
                       ELSE UNCHANGED <<last_temp, last_temp_ts>>
               ELSE UNCHANGED <<last_temp, last_temp_ts, fetched, attempt>>
            \* get_top_processes
            /\ IF a.include_processes /\ NeedsPriming(a.sort_by)
               THEN /\ proc_prime_ts' = now
                    /\ primed' = TRUE
                    /\ prime_log' = Append(prime_log, now)
               ELSE UNCHANGED <<proc_prime_ts, primed, prime_log>>
    /\ UNCHANGED <<now, start_time, network_io_start, enable_temps, ptable>>

GetJsonReport ==
    \E a \in ReportArgs, io \in ReportDiskReadings,
       net_io \in ReportNetReadings, out \in ReportProbeOutcomes,
       battery \in Batteries :
        ReportCall(a, io, net_io, out, battery) /\ UNCHANGED hostVars

ReportTick ==
    /\ now < StartClock + ReportMaxElapsed
    /\ now' = now + 1
    /\ UNCHANGED <<rateVars, tempVars, procVars, call, hostVars>>

\* __init__ and the assignment of enable_temps that follows it in main
ReportInit ==
    /\ InitMonitor
    /\ NoHost
    /\ network_io_start \in ReportNetReadings
    /\ prev_disk_io \in ReportDiskReadings
    /\ enable_temps \in BOOLEAN
    /\ ptable \in ReportTables

ReportNext ==
    \/ GetJsonReport
    \/ ReportTick

ReportSpec == ReportInit /\ [][ReportNext]_vars

(***************************************************************************)
(* main with --continuous: the loop of lines 343-379                       *)
(***************************************************************************)
\* the longest --duration given
MaxDuration == 2
\* the longest --interval given
MaxInterval == 2
\* seconds of session the loop model follows
MainMaxElapsed == 5
\* seconds by which time.sleep may return late
MaxOversleep == 1

\* --duration (type int, default None) and --interval (type int)
MainArgs ==
    [duration : {<<>>} \cup {<<d>> : d \in 0 .. MaxDuration},
     interval : 1 .. MaxInterval]

\* line 344: time.time() + args.duration if args.duration else None, where
\* None and 0 are both false
EndTime(duration) ==
    IF duration # <<>> /\ duration[1] # 0 THEN <<now + duration[1]>> ELSE <<>>

\* lines 346-351 with the defaults of --no-processes, --top, --sort-by and
\* --no-battery
MainReportArgs ==
    [include_processes |-> TRUE, top_n |-> 2, sort_by |-> "cpu",
     include_battery |-> TRUE]

\* lines 345-376: one tick, run with --json.  An exception other than
\* KeyboardInterrupt leaves main uncaught
MainTick ==
    /\ pc = "tick"
    /\ \E io \in ReportDiskReadings, net_io \in ReportNetReadings,
          out \in ReportProbeOutcomes, battery \in Batteries :
            /\ ReportCall(MainReportArgs, io, net_io, out, battery)
            /\ pc' = IF DiskRaises(io) THEN "failed" ELSE "sleep"
    /\ UNCHANGED <<uiVars, end_time, args>>

\* line 377: time.sleep(args.interval)
MainSleep ==
    /\ pc = "sleep"
    /\ \E late \in 0 .. MaxOversleep :
        /\ now + args.interval + late <= StartClock + MainMaxElapsed
        /\ now' = now + args.interval + late
    /\ pc' = "check"
    /\ UNCHANGED <<rateVars, tempVars, procVars, call, uiVars, end_time, args>>

\* lines 378-379: if end_time and time.time() >= end_time: break
MainCheck ==
    /\ pc = "check"
    /\ pc' = IF end_time # <<>> /\ now >= end_time[1] THEN "done" ELSE "tick"
    /\ UNCHANGED <<now, rateVars, tempVars, procVars, call, uiVars, end_time,
                   args>>

\* lines 411-412: KeyboardInterrupt ends the loop wherever it stands
Interrupt ==
    /\ pc \in {"tick", "sleep", "check"}
    /\ pc' = "stopped"
    /\ UNCHANGED <<now, rateVars, tempVars, procVars, call, uiVars, end_time,
                   args>>

\* lines 339-344: the monitor is constructed, --temps is not given, end_time
\* is computed and the loop is entered
MainInit ==
    /\ InitMonitor
    /\ network_io_start = [bytes_sent |-> 0, bytes_recv |-> 0]
    /\ prev_disk_io \in ReportDiskReadings
    /\ enable_temps = FALSE
    /\ ptable \in ReportTables
    /\ history_up = <<>>
    /\ history_down = <<>>
    /\ panel = [op |-> "none"]
    /\ dirty = FALSE
    /\ timer = 0
    /\ args \in MainArgs
    /\ end_time = EndTime(args.duration)
    /\ pc = "tick"

MainNext ==
    \/ MainTick
    \/ MainSleep
    \/ MainCheck
    \/ Interrupt

MainSpec == MainInit /\ [][MainNext]_vars

(***************************************************************************)
(* NetworkDetailWidget (src/macos_tui_advanced.py), which calls            *)
(* get_network_info of the monitor the application shares.  Textual runs   *)
(* the timer callback and render on one event loop, one at a time.         *)
(*                                                                         *)
(* The histories hold the rates as get_network_info returns them; the      *)
(* factor 1024 * 1024 of lines 220-221 changes their unit only.            *)
(***************************************************************************)
\* deque(maxlen=60)
HistoryMaxLen == 60
\* set_interval(1.0, ...)
TimerPeriod == 1

DequeAppendNoEvict(history, sample) ==
    Append(history, sample)

\* deque.append on a deque with maxlen: a full deque drops its leftmost item
DequeAppend(history, sample) ==
    IF Len(history) < HistoryMaxLen
    THEN Append(history, sample)
    ELSE Append(Tail(history), sample)

\* lines 218-222: the timer callback, run when the timer has come due
UpdateNetwork(net_io) ==
    /\ now >= timer
    /\ timer' = timer + TimerPeriod
    /\ NetCall(net_io)
    /\ history_up' = DequeAppend(history_up, call'.send_rate_mib_s)
    /\ history_down' = DequeAppend(history_down, call'.recv_rate_mib_s)
    /\ dirty' = TRUE
    /\ UNCHANGED panel

\* lines 224-262: the statistics block divides by len(history_up) when
\* history_down is not empty
Render(net_io) ==
    /\ NetCall(net_io)
    /\ panel' = [op |-> "render",
                 statistics |-> history_down # <<>>,
                 raised |-> history_down # <<>> /\ history_up = <<>>]
    /\ dirty' = FALSE
    /\ UNCHANGED <<history_up, history_down, timer>>

\* the clock moves while the timer is not due
UiTick(max_elapsed) ==
    /\ now < timer
    /\ now < StartClock + max_elapsed
    /\ now' = now + 1
    /\ UNCHANGED <<rateVars, tempVars, procVars, call, hostVars>>

\* PerformanceTUI.__init__ constructs the monitor; on_mount starts the timer
UiInit ==
    /\ InitMonitor
    /\ prev_disk_io = <<>>
    /\ enable_temps = FALSE
    /\ ptable = <<>>
    /\ history_up = <<>>
    /\ history_down = <<>>
    /\ panel = [op |-> "none"]
    /\ dirty = FALSE
    /\ timer = now + TimerPeriod
    /\ pc = "none"
    /\ end_time = <<>>
    /\ args = [duration |-> <<>>, interval |-> 5]

(***************************************************************************)
(* The widget over a minute and more, on counters that only grow           *)
(***************************************************************************)
\* seconds of session the widget model follows: more than HistoryMaxLen
TuiMaxElapsed == 62

TuiReadings ==
    {r \in NetReadings : r.bytes_sent \in {0, MiB} /\ r.bytes_recv = 0}

TuiUpdateNetwork ==
    \E net_io \in TuiReadings :
        /\ net_io.bytes_sent >= prev_net_io.bytes_sent
        /\ UpdateNetwork(net_io)

TuiRender ==
    \E net_io \in TuiReadings :
        /\ net_io.bytes_sent >= prev_net_io.bytes_sent
        /\ Render(net_io)

TuiTick == UiTick(TuiMaxElapsed)

TuiInit ==
    /\ UiInit
    /\ network_io_start = [bytes_sent |-> 0, bytes_recv |-> 0]

TuiNext ==
    \/ TuiUpdateNetwork
    \/ TuiRender
    \/ TuiTick

TuiSpec == TuiInit /\ [][TuiNext]_vars

(***************************************************************************)
(* Every caller of get_network_info on one monitor: the timer callback,    *)
(* render and get_json_report, on counters that rise and fall              *)
(***************************************************************************)
\* seconds of session the model of the callers follows
SharedMaxElapsed == 2

SharedReadings ==
    {r \in NetReadings : r.bytes_sent # 5243 /\ r.bytes_recv = 0}

\* a report of the network section alone: no disk counters, no battery, no
\* process list
SharedReportArgs ==
    [include_processes |-> FALSE, top_n |-> 2, sort_by |-> "cpu",
     include_battery |-> FALSE]

SharedUpdateNetwork ==
    \E net_io \in SharedReadings : UpdateNetwork(net_io)

SharedRender ==
    \E net_io \in SharedReadings : Render(net_io)

SharedReport ==
    \E net_io \in SharedReadings, out \in ReportProbeOutcomes :
        /\ ReportCall(SharedReportArgs, <<>>, net_io, out, <<>>)
        /\ UNCHANGED hostVars

SharedTick == UiTick(SharedMaxElapsed)

SharedInit ==
    /\ UiInit
    /\ network_io_start \in SharedReadings

SharedNext ==
    \/ SharedUpdateNetwork
    \/ SharedRender
    \/ SharedReport
    \/ SharedTick

SharedSpec == SharedInit /\ [][SharedNext]_vars

(***************************************************************************)
(* The steps of a behaviour that are calls, told by the call they record   *)
(***************************************************************************)
NetStep == call'.op = "net" /\ NetCall(call'.io)
DiskStep == call'.op = "disk" /\ DiskCall(call'.io)
TempStep == call'.op = "temp" /\ GetTemperatureInfo
TopStep == call'.op = "top" /\ TopCall(call'.num, call'.sort_by)
\* a report is the one step that records a report and leaves the clock alone
ReportStep == call'.op = "report" /\ now' = now

(***************************************************************************)
(* C1: every rate returned by get_network_info and get_disk_info is >= 0,  *)
(* and a call that reads a counter below the stored previous value returns *)
(* a rate of exactly 0 for that counter.                                   *)
(***************************************************************************)
C1_RatesNeverNegative ==
    [][/\ NetStep =>
            /\ call'.send_rate_mib_s >= 0
            /\ call'.recv_rate_mib_s >= 0
            /\ call'.io.bytes_sent < prev_net_io.bytes_sent
                   => call'.send_rate_mib_s = 0
            /\ call'.io.bytes_recv < prev_net_io.bytes_recv
                   => call'.recv_rate_mib_s = 0
       /\ (DiskStep /\ call'.io_stats # <<>>) =>
            /\ call'.io_stats[1].read_rate_mib_s >= 0
            /\ call'.io_stats[1].write_rate_mib_s >= 0
            /\ call'.io[1].read_bytes < prev_disk_io[1].read_bytes
                   => call'.io_stats[1].read_rate_mib_s = 0
            /\ call'.io[1].write_bytes < prev_disk_io[1].write_bytes
                   => call'.io_stats[1].write_rate_mib_s = 0]_vars

(***************************************************************************)
(* C2: each family's rate is its counter delta over the time since that    *)
(* family's own previous snapshot was stored: get_disk_info divides by the *)
(* time since _prev_disk_io was stored, get_network_info by the time since *)
(* _prev_net_io was stored, whatever calls were made in between.           *)
(***************************************************************************)
C2_RateOverOwnWindow ==
    [][/\ NetStep =>
            call' = NetResult(call'.io, prev_net_io, now - prev_sample_ts)
       /\ (DiskStep /\ call'.io_stats # <<>>) =>
            call'.io_stats[1] =
                DiskStats(call'.io[1], prev_disk_io[1], now - disk_snap_ts)]_vars

(***************************************************************************)
(* C3 as stated: the first get_network_info call and the first             *)
(* get_disk_info call on a fresh monitor report rates of 0, whatever the   *)
(* counters read.                                                          *)
(***************************************************************************)
C3_FirstCallRateZero ==
    /\ (call.op = "net" /\ call.first) =>
           call.send_rate_mib_s = 0 /\ call.recv_rate_mib_s = 0
    /\ (call.op = "disk" /\ call.first /\ call.io_stats # <<>>) =>
           call.io_stats[1].read_rate_mib_s = 0
               /\ call.io_stats[1].write_rate_mib_s = 0

\* rate is 100 * delta / (elapsed * 1024**2) to the nearest hundredth when the
\* window is a second or more, and has the sign of delta (or is 0) always
RateOf(rate, delta, elapsed) ==
    /\ delta = 0 => rate = 0
    /\ rate > 0 => delta > 0
    /\ rate < 0 => delta < 0
    /\ elapsed >= 1 =>
           LET e == rate * elapsed * MiB - 100 * delta
           IN  2 * e <= elapsed * MiB /\ -2 * e <= elapsed * MiB

(***************************************************************************)
(* C3 as amended: the first observation of a family is the snapshot the    *)
(* constructor stores; the first get_network_info / get_disk_info call     *)
(* reports the rate measured from that snapshot over the time since        *)
(* _prev_sample_ts: 0 for a counter that still has its construction value, *)
(* otherwise the rounded delta over the window.                            *)
(***************************************************************************)
C3_FirstCallRateFromConstruction ==
    [][/\ (NetStep /\ call'.first) =>
            /\ prev_net_io = network_io_start
            /\ RateOf(call'.send_rate_mib_s,
                      call'.io.bytes_sent - network_io_start.bytes_sent,
                      now - prev_sample_ts)
            /\ RateOf(call'.recv_rate_mib_s,
                      call'.io.bytes_recv - network_io_start.bytes_recv,
                      now - prev_sample_ts)
       /\ (DiskStep /\ call'.first /\ call'.io_stats # <<>>) =>
            /\ disk_snap_ts = start_time
            /\ RateOf(call'.io_stats[1].read_rate_mib_s,
                      call'.io[1].read_bytes - prev_disk_io[1].read_bytes,
                      now - prev_sample_ts)
            /\ RateOf(call'.io_stats[1].write_rate_mib_s,
                      call'.io[1].write_bytes - prev_disk_io[1].write_bytes,
                      now - prev_sample_ts)]_vars

\* a first get_network_info call that reports a non-zero rate
C3_Witness ==
    /\ call.op = "net"
    /\ call.first
    /\ call.send_rate_mib_s > 0
    /\ call.at > start_time

(***************************************************************************)
(* C4: after a run of powermetrics at t0 that gave a temperature, a        *)
(* get_temperature_info call at t with t - t0 < temp_refresh_seconds       *)
(* returns that temperature without running powermetrics, and a call at t  *)
(* with t - t0 >= temp_refresh_seconds runs powermetrics again and returns *)
(* what that run gives, never the cached value.                            *)
(***************************************************************************)
C4_CacheServedOnlyWithinTtl ==
    [][(TempStep /\ fetched # <<>>) =>
          IF now - fetched[1].at < temp_refresh_seconds
          THEN /\ call'.probes = 0
               /\ call'.value = <<fetched[1].value>>
          ELSE /\ call'.probes = 1
               /\ call'.value = call'.got[1].temps]_vars

\* a call served from the cache some seconds after the fetch
C4_Witness ==
    /\ call.op = "temp"
    /\ call.probes = 0
    /\ call.value # <<>>
    /\ call.at > last_temp_ts

(***************************************************************************)
(* C5: after a run of powermetrics at t0 that gave no temperature, a       *)
(* get_temperature_info call at t with t - t0 < temp_refresh_seconds       *)
(* returns None without running powermetrics again.                        *)
(***************************************************************************)
C5_NoneIsCached ==
    [][(TempStep /\ attempt # <<>> /\ attempt[1].got = <<>>
            /\ now - attempt[1].at < temp_refresh_seconds) =>
          call'.probes = 0 /\ call'.value = <<>>]_vars

(***************************************************************************)
(* C6: a get_temperature_info call that misses the cache runs powermetrics *)
(* exactly once and replaces the cache record whatever the outcome: the    *)
(* stored value is what the run gave (None after a failure) and the stored *)
(* timestamp is the time of the run.                                       *)
(***************************************************************************)
C6_MissReplacesRecord ==
    [][(TempStep /\ enable_temps /\ ~CacheHit) =>
          /\ call'.probes = 1
          /\ last_temp' = call'.got[1].temps
          /\ last_temp_ts' = now]_vars

(***************************************************************************)
(* C7: whatever sort_by is, a get_top_processes call returns per-process   *)
(* cpu_percent values only when a priming pass has completed in the        *)
(* session before they were read.                                          *)
(***************************************************************************)
C7_PrimedBeforeRead ==
    (call.op = "top" /\ call.result # <<>>) => primed

\* the processes of the enumeration whose read succeeds
Readable(table) == {i \in DOMAIN table : table[i].ok}

(***************************************************************************)
(* C8: get_top_processes returns exactly min(num, number of processes read *)
(* successfully) entries; each entry is the reading of a different process *)
(* of the current enumeration whose read succeeded, so a failed read is    *)
(* skipped and nothing of an earlier call is returned.                     *)
(***************************************************************************)
C8_LengthAndMembership ==
    [][TopStep =>
          LET res == call'.result
              n == Cardinality(Readable(ptable))
          IN  /\ Len(res) = IF call'.num < n THEN call'.num ELSE n
              /\ \A k \in DOMAIN res :
                    \E i \in Readable(ptable) : res[k] = Entry(ptable[i])
              /\ \A k, l \in DOMAIN res : k # l => res[k].pid # res[l].pid]_vars

\* a call that skipped a failed read and truncated the ranking to num entries
C8_Witness ==
    /\ call.op = "top"
    /\ \E i \in DOMAIN ptable : ~ptable[i].ok
    /\ call.num >= 1
    /\ Len(call.result) = call.num
    /\ Cardinality(Readable(ptable)) > call.num

\* a ranks before b: the greater metric, or the same metric and the smaller pid
RanksBefore(a, b, sort_by) ==
    \/ Metric(a, sort_by) > Metric(b, sort_by)
    \/ Metric(a, sort_by) = Metric(b, sort_by) /\ a.pid < b.pid

Place(table, pid) == CHOOSE i \in DOMAIN table : table[i].pid = pid

C10_UnknownSelectorActsAsCpu ==
    [][(TopStep /\ call'.sort_by \notin {"cpu", "memory"}) =>
          /\ call'.result = RankedView(ptable, call'.num, "cpu")
          /\ proc_prime_ts' =
                 IF NeedsPriming("cpu") THEN now ELSE proc_prime_ts]_vars

(***************************************************************************)
(* C11: get_json_report never fails as a whole because one sub-probe is    *)
(* unavailable.  Whatever the disk counters were at construction and are   *)
(* now, whether a battery exists, whatever powermetrics does and whichever *)
(* processes have gone, the call returns a report with its disk, network   *)
(* and temperature sections and the battery and process sections asked     *)
(* for; only the section of the unavailable probe is None.                 *)
(***************************************************************************)
C11_ReportNeverFails ==
    call.op = "report" =>
        /\ ~call.raised
        /\ call.data # <<>>
        /\ call.data[1].disk_io_stats = <<>> <=> call.io = <<>>
        /\ call.data[1].battery.present = call.a.include_battery
        /\ call.data[1].top_processes.present = call.a.include_processes

(***************************************************************************)
(* C12: in a continuous session given --duration D the loop of main checks *)
(* the bound after the sleep that follows a tick, and at the first check   *)
(* at which D seconds have passed since the loop was entered it leaves:    *)
(* no tick starts after that check.                                        *)
(***************************************************************************)
C12_LeavesAtFirstCheckPastDuration ==
    [][(/\ pc = "check"
        /\ args.duration # <<>>
        /\ now - start_time >= args.duration[1])
           => pc' \in {"done", "stopped"}]_vars

(***************************************************************************)
(* C13: when get_json_report is called twice in a row and the second call  *)
(* reads the network and disk counters the first one read, the second      *)
(* report is returned and gives a rate of 0 for network send, network      *)
(* receive, disk read and disk write, whatever time has passed between the *)
(* two calls, none included.                                               *)
(***************************************************************************)
C13_UnchangedCountersGiveZeroRates ==
    [][(/\ ReportStep
        /\ call.op = "report"
        /\ ~call.raised
        /\ call'.io = call.io
        /\ call'.net_io = call.net_io)
           => /\ ~call'.raised
              /\ call'.data[1].network.send_rate_mib_s = 0
              /\ call'.data[1].network.recv_rate_mib_s = 0
              /\ call'.io # <<>> =>
                    /\ call'.data[1].disk_io_stats # <<>>
                    /\ call'.data[1].disk_io_stats[1].read_rate_mib_s = 0
                    /\ call'.data[1].disk_io_stats[1].write_rate_mib_s = 0]_vars

\* a report that follows another within the second of construction and reads
\* again counters that are not those of construction
C13_Witness ==
    /\ call.op = "report"
    /\ ~call.raised
    /\ call.at = start_time
    /\ ~call.data[1].network.first
    /\ network_io_start.bytes_sent = 0
    /\ call.net_io.bytes_sent = MiB
    /\ call.data[1].network.send_rate_mib_s = 0
    /\ call.io # <<>>
    /\ call.io[1].read_bytes = 2 * MiB
    /\ call.data[1].disk_io_stats[1].read_rate_mib_s = 0

(***************************************************************************)
(* C14: every rate computation stores the counters it has just read as the *)
(* baseline, also when a counter has gone down: after get_network_info or  *)
(* get_disk_info the stored snapshot is the reading of that call, and a    *)
(* call that follows measures its deltas from that reading.                *)
(***************************************************************************)
C14_BaselineIsLastReading ==
    [][/\ NetStep =>
            /\ prev_net_io' = call'.io
            /\ prev_sample_ts' = call'.at
       /\ (NetStep /\ call.op = "net") =>
            /\ call'.send_rate_mib_s =
                   RateMiBs(call'.io.bytes_sent - call.io.bytes_sent,
                            now - call.at)
            /\ call'.recv_rate_mib_s =
                   RateMiBs(call'.io.bytes_recv - call.io.bytes_recv,
                            now - call.at)
       /\ (DiskStep /\ call'.io_stats # <<>>) =>
            prev_disk_io' = call'.io
       /\ (DiskStep /\ call'.io_stats # <<>>
                    /\ call.op = "disk" /\ call.io_stats # <<>>) =>
            call'.io_stats[1] =
                DiskStats(call'.io[1], call.io[1], now - prev_sample_ts)]_vars

\* a call that reads bytes_sent below the value of construction and above the
\* value an earlier call read and stored, and reports the rise
C14_Witness ==
    /\ call.op = "net"
    /\ network_io_start.bytes_sent = 2 * MiB
    /\ call.io.bytes_sent = MiB
    /\ call.send_rate_mib_s > 0
    /\ prev_net_io = call.io

(***************************************************************************)
(* C15: get_top_processes runs a priming pass only when more than 5        *)
(* seconds have passed since the last pass ran, or none has run; sorted by *)
(* cpu it then always runs one.  So any two passes are more than the       *)
(* cooldown apart, however often the method is called.  A pass is recorded *)
(* with the time of the call, whatever processes failed during it.         *)
(***************************************************************************)
C15_PrimingThrottled ==
    [][TopStep =>
         LET ran == prime_log' # prime_log
             due == \/ prime_log = <<>>
                    \/ now - prime_log[Len(prime_log)] > PrimeCooldown
         IN  /\ ran => due
             /\ (call'.sort_by = "cpu" /\ due) => ran
             /\ ran => /\ prime_log' = Append(prime_log, now)
                       /\ proc_prime_ts' = now
             /\ \A i \in 1 .. Len(prime_log') - 1 :
                    prime_log'[i + 1] - prime_log'[i] > PrimeCooldown]_vars

\* a second pass has just run over a table in which a process fails
C15_Witness ==
    /\ call.op = "top"
    /\ Len(prime_log) = 2
    /\ prime_log[2] = call.at
    /\ proc_prime_ts = call.at
    /\ \E i \in DOMAIN ptable : ~ptable[i].ok

(***************************************************************************)
(* C16: whichever of get_json_report, update_network and render calls      *)
(* get_network_info, and in whatever order, the call measures its byte     *)
(* deltas from the snapshot the call before it stored and stores its own   *)
(* reading, so the deltas of all calls add up to the change of the         *)
(* counters since construction; and _prev_sample_ts never decreases.       *)
(***************************************************************************)
C16_DeltasTelescope ==
    [][/\ prev_sample_ts' >= prev_sample_ts
       /\ counted' =
              [sent |-> prev_net_io'.bytes_sent - network_io_start.bytes_sent,
               recv |-> prev_net_io'.bytes_recv - network_io_start.bytes_recv]
       /\ now' = now =>
              LET net_io == IF call'.op = "report"
                            THEN call'.net_io ELSE call'.io
              IN  /\ prev_net_io' = net_io
                  /\ counted'.sent - counted.sent =
                         net_io.bytes_sent - prev_net_io.bytes_sent
                  /\ counted'.recv - counted.recv =
                         net_io.bytes_recv - prev_net_io.bytes_recv]_vars

\* the three callers have all called, the last of them get_json_report, and
\* bytes_sent has fallen below its value of construction and risen again
C16_Witness ==
    /\ call.op = "report"
    /\ panel.op = "render"
    /\ \E i \in DOMAIN history_up : history_up[i] > 0
    /\ network_io_start.bytes_sent = 2 * MiB
    /\ prev_net_io.bytes_sent = MiB
    /\ counted.sent = 0 - MiB

(***************************************************************************)
(* C17: a call of get_temperature_info made while enable_temps is false    *)
(* returns None, does not run powermetrics, and leaves _last_temp and      *)
(* _last_temp_ts as they were, whatever calls came before and whatever the *)
(* cache holds.                                                            *)
(***************************************************************************)
C17_DisabledLeavesCacheAlone ==
    [][(TempStep /\ ~enable_temps) =>
           /\ call'.value = <<>>
           /\ call'.probes = 0
           /\ attempt' = attempt
           /\ last_temp' = last_temp
           /\ last_temp_ts' = last_temp_ts]_vars

\* a call with the switch off over a cached reading that is still fresh
C17_Witness ==
    /\ call.op = "temp"
    /\ ~enable_temps
    /\ call.probes = 0
    /\ call.value = <<>>
    /\ last_temp # <<>>
    /\ call.at - last_temp_ts < temp_refresh_seconds
    /\ attempt # <<>>
    /\ attempt[1].at < call.at

(***************************************************************************)
(* C18: after any sequence of update_network callbacks and renders,        *)
(* history_up and history_down have the same length, at most 60; a         *)
(* callback appends the two rates it has read on the right and, when the   *)
(* histories are full, drops their oldest entries; so a render that enters *)
(* its statistics block finds history_up non-empty and does not divide by  *)
(* zero.                                                                   *)
(***************************************************************************)
C18_HistoriesInStep ==
    [][/\ Len(history_up') = Len(history_down')
       /\ Len(history_up') <= HistoryMaxLen
       /\ panel'.op = "render" =>
              /\ ~panel'.raised
              /\ panel'.statistics => history_up' # <<>>
       /\ timer' # timer =>
              LET n == Len(history_up)
                  from == IF n < HistoryMaxLen THEN 1 ELSE 2
              IN  /\ history_up' = SubSeq(history_up, from, n)
                                       \o <<call'.send_rate_mib_s>>
                  /\ history_down' = SubSeq(history_down, from, n)
                                         \o <<call'.recv_rate_mib_s>>]_vars

\* more callbacks have run than the histories hold, the one non-zero rate
\* read is now the oldest entry kept, and render has shown the statistics
C18_Witness ==
    /\ timer - start_time > HistoryMaxLen + TimerPeriod
    /\ Len(history_up) = HistoryMaxLen
    /\ Len(history_down) = HistoryMaxLen
    /\ history_up[1] > 0
    /\ panel.op = "render"
    /\ panel.statistics
    /\ ~dirty

====
